---- MODULE Spec2Model ----
(***************************************************************************)
(* Model of the tracker.md <-> GitHub issues reconciliation engine of      *)
(* src/sync.py: TrackerParser.parse, Sync.pull_github_state,               *)
(* Sync.compute_diff, Sync.push_changes, Sync.detect_ui_changes,           *)
(* Sync.update_tracker, Sync.update_tracker_github_field and Sync.run.     *)
(*                                                                         *)
(* Text is modelled line by line.  A line of tracker.md is a record:       *)
(*   [kind |-> "task", mark, title]   "- [<mark>] <title>"                 *)
(*   [kind |-> "field", key, val]     "  <key>: <val>"  (val stripped)     *)
(*   [kind |-> "section", name]       "## <name>"                          *)
(*   [kind |-> "blank"]               ""                                   *)
(* Strings that the code takes apart (the labels field, the task line in   *)
(* str.replace) are drawn from small tables of concrete strings, and the   *)
(* operators below give what Python computes on exactly those strings.     *)
(*                                                                         *)
(* The remote store is the environment: it numbers a created issue with    *)
(* the next free number, opens it, and applies a PATCH field by field      *)
(* (partial patch).  Any remote call may fail, which ends the run with a   *)
(* nonzero exit.  tracker.md always exists; time.sleep and the console     *)
(* output are not modelled.  A rewrite is two steps: the new lines are     *)
(* written to tracker.md.tmp, then os.replace moves them over tracker.md.  *)
(*                                                                         *)
(* The lines of tracker.md share one line terminator (newline); the text   *)
(* mode of open() translates it on read and on write.                      *)
(*                                                                         *)
(* Six specifications:                                                     *)
(*   Spec         runs of main() on generated files and remote stores      *)
(*   SpecNoFail   the same runs without failing calls, from a clean start  *)
(*   SpecDiff     compute_diff and detect_ui_changes on wide field values  *)
(*   SpecOnce     one run of main(), the first task varying in its github  *)
(*                value and its milestone                                  *)
(*   SpecRewrite  the two rewriters on their own, tracker.md.tmp written   *)
(*                line by line, next to a concurrent reader                *)
(*   SpecParse    TrackerParser.parse on every short file over a small     *)
(*                alphabet of lines                                        *)
(***************************************************************************)
EXTENDS Integers, Sequences, FiniteSets, TLC

\* ------------------------------------------------------------ bounds
\* blocks (task line + fields) in a generated tracker.md
MaxBlocks == 2
\* issues in a generated remote store
MaxIssues == 2
\* lines in a generated file of the parse harness
MaxLines == 4
\* invocations of Sync.run in one behaviour
MaxRuns == 2

\* ------------------------------------------------------------ constants
\* range(i, min(i+10, len(lines))) in update_tracker_github_field
Window == 10

\* Sync.project_id before push_changes creates the project container (None)
NoProject == 0

\* Python's None (an absent remote milestone, dict.get without a hit,
\* current_section / current_task / current_id before the first match)
None == "<None>"

\* ------------------------------------------------------------ lines
TaskLine(mark, title) == [kind |-> "task", mark |-> mark, title |-> title]
FieldLine(key, val) == [kind |-> "field", key |-> key, val |-> val]
SectionLine(name) == [kind |-> "section", name |-> name]
BlankLine == [kind |-> "blank"]

\* re.match(TrackerParser.TASK_PATTERN, line)
IsTaskLine(line) == line.kind = "task"
\* re.match(TrackerParser.SECTION_PATTERN, line)
IsSectionLine(line) == line.kind = "section"
\* re.match(TrackerParser.FIELD_PATTERN, line)
IsFieldLine(line) == line.kind = "field"
\* line.strip() == ''
IsBlankLine(line) == line.kind = "blank"

\* dict.get(key, default)
Get(d, key, default) == IF key \in DOMAIN d THEN d[key] ELSE default
\* d[key] = val on a dict
Put(d, key, val) ==
    [k \in DOMAIN d \cup {key} |-> IF k = key THEN val ELSE d[k]]
EmptyDict == [k \in {} |-> None]

\* ------------------------------------------------------------ strings
\* str.split(',') on the labels strings of the model
SplitComma(s) ==
    CASE s = "" -> <<"">>
      [] s = "a" -> <<"a">>
      [] s = "b" -> <<"b">>
      [] s = "a,b" -> <<"a", "b">>
      [] s = "b,a" -> <<"b", "a">>
      [] s = "a, b, a" -> <<"a", " b", " a">>
      [] s = "a," -> <<"a", "">>

\* str.strip() on the elements SplitComma yields
Strip(s) ==
    CASE s = " a" -> "a"
      [] s = " b" -> "b"
      [] OTHER -> s

\* set(list)
Range(seq) == {seq[i] : i \in DOMAIN seq}

\* str(issue_number) as the f-string of update_tracker_github_field writes it
NumStr(n) ==
    CASE n = 1 -> "1" [] n = 2 -> "2" [] n = 3 -> "3" [] n = 4 -> "4"
      [] n = 5 -> "5" [] n = 6 -> "6" [] n = 7 -> "7" [] n = 8 -> "8"
      [] n = 9 -> "9" [] n = 10 -> "10" [] n = 11 -> "11" [] n = 12 -> "12"
      [] n = 13 -> "13" [] n = 14 -> "14" [] n = 15 -> "15" [] n = 16 -> "16"

\* title.replace(old, new) for old, new in {"[ ]", "[x]"}: every occurrence in
\* the title part of a task line is replaced too
ReplaceInTitle(title, old, new) ==
    CASE title = "C [ ]" /\ old = "[ ]" /\ new = "[x]" -> "C [x]"
      [] title = "C [x]" /\ old = "[x]" /\ new = "[ ]" -> "C [ ]"
      [] OTHER -> title

\* line.replace(old, new) on a task line "- [<mark>] <title>", old and new
\* being "[ ]" or "[x]" (given by their mark character)
ReplaceMark(line, old, new) ==
    [kind |-> "task",
     mark |-> IF line.mark = old THEN new ELSE line.mark,
     title |-> ReplaceInTitle(line.title,
                              IF old = " " THEN "[ ]" ELSE "[x]",
                              IF new = " " THEN "[ ]" ELSE "[x]")]

\* ------------------------------------------------------------ parser
NoTask == [none |-> TRUE]

ParseInit == [tasks |-> <<>>, current_section |-> None, current_task |-> NoTask]

\* one iteration of the loop of TrackerParser.parse
ParseLine(st, line) ==
    IF IsSectionLine(line)
    THEN [st EXCEPT !.current_section = line.name]
    ELSE IF IsTaskLine(line)
    THEN [tasks |-> IF st.current_task # NoTask
                    THEN Append(st.tasks, st.current_task)
                    ELSE st.tasks,
          current_section |-> st.current_section,
          current_task |-> [checked |-> line.mark = "x",
                            title |-> line.title,
                            section |-> st.current_section,
                            metadata |-> EmptyDict,
                            raw_lines |-> <<line>>]]
    ELSE IF st.current_task # NoTask /\ IsFieldLine(line)
    THEN [st EXCEPT !.current_task.metadata = Put(@, line.key, line.val),
                    !.current_task.raw_lines = Append(@, line)]
    ELSE IF st.current_task # NoTask /\ IsBlankLine(line)
    THEN [st EXCEPT !.current_task.raw_lines = Append(@, line)]
    ELSE st

RECURSIVE ParseLoop(_, _, _)
ParseLoop(lines, i, st) ==
    IF i > Len(lines) THEN st
    ELSE ParseLoop(lines, i + 1, ParseLine(st, lines[i]))

\* TrackerParser.parse
Parse(lines) ==
    LET st == ParseLoop(lines, 1, ParseInit)
    IN IF st.current_task # NoTask
       THEN Append(st.tasks, st.current_task)
       ELSE st.tasks

\* ------------------------------------------------------------ remote store
\* The remote store is a sequence of issues; the issue number is its index.
\* An issue is [number, title, state, labels, milestone, body]: labels is the
\* set of its label names, milestone a title or None, body a record holding
\* the tracker id of the embedded marker (no marker field when there is none).

\* the milestones of the repository, by number (GitHubAPI.get_milestones)
RemoteMilestones == <<"m1">>

\* the issue body create_issue_on_github builds: the marker line carries the id
\* (the rendered epic/type/priority/description lines are never read back)
IssueBody(task_id) == [marker |-> task_id, text |-> "rendered"]

\* TrackerParser.extract_tracker_id: re.search of the marker with a non-empty id
extract_tracker_id(body) ==
    IF "marker" \in DOMAIN body /\ body.marker # "" THEN body.marker ELSE None

\* the milestone map pull_github_state builds: title -> number
BuildMilestoneMap(milestones) ==
    [t \in Range(milestones) |->
        CHOOSE n \in DOMAIN milestones :
            /\ milestones[n] = t
            /\ \A m \in DOMAIN milestones : milestones[m] = t => m <= n]

\* the tracker_map entry of one issue
SnapshotEntry(issue) ==
    [number |-> issue.number,
     title |-> issue.title,
     state |-> issue.state,
     labels |-> issue.labels,
     milestone |-> issue.milestone,
     node_id |-> issue.number]

RECURSIVE TrackerMapLoop(_, _, _)
TrackerMapLoop(iss, i, tracker_map) ==
    IF i > Len(iss) THEN tracker_map
    ELSE LET tracker_id == extract_tracker_id(iss[i].body)
         IN TrackerMapLoop(iss, i + 1,
                IF tracker_id # None
                THEN Put(tracker_map, tracker_id, SnapshotEntry(iss[i]))
                ELSE tracker_map)

\* Sync.pull_github_state: the tracker_map of the returned github_data
pull_github_state(iss) == TrackerMapLoop(iss, 1, EmptyDict)

\* NeedsUpdate with the state comparison reduced to the checkbox: a checked
\* task asks for closed whether or not the issue is closed already
NeedsUpdate_StateFromCheckboxOnly(task, github_issue) ==
    LET local_labels == Range(SplitComma(Get(task.metadata, "labels", "")))
        github_labels == github_issue.labels
        local_milestone == Get(task.metadata, "milestone", "")
        should_be_closed == task.checked
        is_closed == github_issue.state = "closed"
        keys == {k \in {"title", "labels", "milestone", "state"} :
                    \/ k = "title" /\ task.title # github_issue.title
                    \/ k = "labels" /\ local_labels # github_labels
                    \/ k = "milestone" /\ local_milestone # github_issue.milestone
                    \/ k = "state" /\ (should_be_closed \/ is_closed)}
    IN [k \in keys |->
           CASE k = "title" -> task.title
             [] k = "labels" -> local_labels
             [] k = "milestone" -> local_milestone
             [] k = "state" -> IF should_be_closed THEN "closed" ELSE "open"]

\* ------------------------------------------------------------ diff engine
\* the needs_update dict compute_diff builds for a resolved task
NeedsUpdate(task, github_issue) ==
    LET local_labels == Range(SplitComma(Get(task.metadata, "labels", "")))
        github_labels == github_issue.labels
        local_milestone == Get(task.metadata, "milestone", "")
        should_be_closed == task.checked
        is_closed == github_issue.state = "closed"
        keys == {k \in {"title", "labels", "milestone", "state"} :
                    \/ k = "title" /\ task.title # github_issue.title
                    \/ k = "labels" /\ local_labels # github_labels
                    \/ k = "milestone" /\ local_milestone # github_issue.milestone
                    \/ k = "state" /\ should_be_closed # is_closed}
    IN [k \in keys |->
           CASE k = "title" -> task.title
             [] k = "labels" -> local_labels
             [] k = "milestone" -> local_milestone
             [] k = "state" -> IF should_be_closed THEN "closed" ELSE "open"]

\* DiffTask without the skip of the IDEAS section
DiffTask_IdeasNotSkipped(task, tracker_map) ==
    LET task_id == Get(task.metadata, "id", "")
        github_num == Get(task.metadata, "github", "")
    IN IF task_id = "" THEN <<>>
       ELSE IF github_num = ""
       THEN << [action |-> "create", task |-> task, task_id |-> task_id] >>
       ELSE IF task_id \notin DOMAIN tracker_map THEN <<>>
       ELSE LET needs_update == NeedsUpdate(task, tracker_map[task_id])
            IN IF DOMAIN needs_update # {}
               THEN << [action |-> "update",
                        task_id |-> task_id,
                        github_number |-> tracker_map[task_id].number,
                        updates |-> needs_update] >>
               ELSE <<>>

\* DiffTask taking the target of an update from the github field of the task
DiffTask_TargetFromGithubField(task, tracker_map) ==
    LET task_id == Get(task.metadata, "id", "")
        github_num == Get(task.metadata, "github", "")
    IN IF task.section = "IDEAS" THEN <<>>
       ELSE IF task_id = "" THEN <<>>
       ELSE IF github_num = ""
       THEN << [action |-> "create", task |-> task, task_id |-> task_id] >>
       ELSE IF task_id \notin DOMAIN tracker_map THEN <<>>
       ELSE LET needs_update == NeedsUpdate(task, tracker_map[task_id])
            IN IF DOMAIN needs_update # {}
               THEN << [action |-> "update",
                        task_id |-> task_id,
                        github_number |->
                            CHOOSE n \in 1..16 : NumStr(n) = github_num,
                        updates |-> needs_update] >>
               ELSE <<>>

\* the body of the loop of compute_diff: the changes one task appends
DiffTask(task, tracker_map) ==
    LET task_id == Get(task.metadata, "id", "")
        github_num == Get(task.metadata, "github", "")
    IN IF task.section = "IDEAS" THEN <<>>
       ELSE IF task_id = "" THEN <<>>
       ELSE IF github_num = ""
       THEN << [action |-> "create", task |-> task, task_id |-> task_id] >>
       ELSE IF task_id \notin DOMAIN tracker_map THEN <<>>
       ELSE LET needs_update == NeedsUpdate(task, tracker_map[task_id])
            IN IF DOMAIN needs_update # {}
               THEN << [action |-> "update",
                        task_id |-> task_id,
                        github_number |-> tracker_map[task_id].number,
                        updates |-> needs_update] >>
               ELSE <<>>

\* the loop of compute_diff leaving at the first linked task whose id the
\* snapshot does not resolve (break in place of continue)
RECURSIVE DiffLoop_StopsAtUnresolved(_, _, _, _)
DiffLoop_StopsAtUnresolved(tasks, i, tracker_map, acc) ==
    IF i > Len(tasks) THEN acc
    ELSE IF /\ tasks[i].section # "IDEAS"
            /\ Get(tasks[i].metadata, "id", "") # ""
            /\ Get(tasks[i].metadata, "github", "") # ""
            /\ Get(tasks[i].metadata, "id", "") \notin DOMAIN tracker_map
    THEN acc
    ELSE DiffLoop_StopsAtUnresolved(tasks, i + 1, tracker_map,
                                    acc \o DiffTask(tasks[i], tracker_map))

\* the loop of compute_diff putting the changes of a task in front of the
\* changes found so far
RECURSIVE DiffLoop_Prepends(_, _, _, _)
DiffLoop_Prepends(tasks, i, tracker_map, acc) ==
    IF i > Len(tasks) THEN acc
    ELSE DiffLoop_Prepends(tasks, i + 1, tracker_map,
                           DiffTask(tasks[i], tracker_map) \o acc)

RECURSIVE DiffLoop(_, _, _, _)
DiffLoop(tasks, i, tracker_map, acc) ==
    IF i > Len(tasks) THEN acc
    ELSE DiffLoop(tasks, i + 1, tracker_map, acc \o DiffTask(tasks[i], tracker_map))

\* Sync.compute_diff
compute_diff(tasks, tracker_map) == DiffLoop(tasks, 1, tracker_map, <<>>)

\* ------------------------------------------------------------ pull detector
\* the body of the loop of detect_ui_changes
DetectTask(task, tracker_map) ==
    LET task_id == Get(task.metadata, "id", "")
    IN IF task_id = "" \/ task.section = "IDEAS" THEN <<>>
       ELSE IF task_id \notin DOMAIN tracker_map THEN <<>>
       ELSE IF tracker_map[task_id].state = "closed" /\ ~task.checked
       THEN << [task_id |-> task_id, action |-> "mark_done"] >>
       ELSE IF tracker_map[task_id].state = "open" /\ task.checked
       THEN << [task_id |-> task_id, action |-> "mark_todo"] >>
       ELSE <<>>

RECURSIVE DetectLoop(_, _, _, _)
DetectLoop(tasks, i, tracker_map, acc) ==
    IF i > Len(tasks) THEN acc
    ELSE DetectLoop(tasks, i + 1, tracker_map,
                    acc \o DetectTask(tasks[i], tracker_map))

\* Sync.detect_ui_changes
detect_ui_changes(tracker_map, tasks) == DetectLoop(tasks, 1, tracker_map, <<>>)

\* ------------------------------------------------------------ text rewriter
\* os.linesep of the platform sync runs on (POSIX)
linesep == "\n"

\* open(TRACKER_FILE, 'r'): universal newlines, every line terminator is read
\* as "\n"
TranslateOnRead(nl) == IF nl \in {"\n", "\r\n", "\r"} THEN "\n" ELSE nl

\* open(temp_file, 'w'): "\n" is written as os.linesep
TranslateOnWrite(nl) == IF nl = "\n" THEN linesep ELSE nl

\* re.match(r'\s+id:\s*(.+)$', line): an id line with a non-empty value
IsIdLine(line) == line.kind = "field" /\ line.key = "id" /\ line.val # ""
\* re.match(r'\s+github:\s*', line)
IsGithubLine(line) == line.kind = "field" /\ line.key = "github"

Max(S) == CHOOSE x \in S : \A y \in S : y <= x
Min(S) == CHOOSE x \in S : \A y \in S : x <= y

\* for j in range(i-1, -1, -1): the first task line found, 0 when none
PrevTaskLine(lines, i) ==
    LET S == {j \in 1..(i - 1) : IsTaskLine(lines[j])}
    IN IF S = {} THEN 0 ELSE Max(S)

\* the inner loop "for change in ui_changes" of update_tracker at line i
RECURSIVE ApplyUiChanges(_, _, _, _, _)
ApplyUiChanges(lines, i, current_id, ui, c) ==
    IF c > Len(ui) THEN lines
    ELSE LET j == PrevTaskLine(lines, i)
             hit == ui[c].task_id = current_id /\ j # 0
             lines2 == IF ~hit THEN lines
                       ELSE IF ui[c].action = "mark_done"
                       THEN [lines EXCEPT ![j] = ReplaceMark(@, " ", "x")]
                       ELSE IF ui[c].action = "mark_todo"
                       THEN [lines EXCEPT ![j] = ReplaceMark(@, "x", " ")]
                       ELSE lines
         IN ApplyUiChanges(lines2, i, current_id, ui, c + 1)

RECURSIVE UpdateTrackerLoop(_, _, _, _)
UpdateTrackerLoop(lines, i, current_id, ui) ==
    IF i > Len(lines) THEN lines
    ELSE LET cid == IF IsIdLine(lines[i]) THEN lines[i].val ELSE current_id
         IN UpdateTrackerLoop(ApplyUiChanges(lines, i, cid, ui, 1), i + 1, cid, ui)

\* Sync.update_tracker: the lines written back to tracker.md
update_tracker(lines, ui) == UpdateTrackerLoop(lines, 1, None, ui)

RECURSIVE GithubFieldLoop(_, _, _, _, _)
GithubFieldLoop(lines, i, current_id, task_id, issue_number) ==
    IF i > Len(lines) THEN lines
    ELSE LET cid == IF IsIdLine(lines[i]) THEN lines[i].val ELSE current_id
         IN IF cid = task_id
            THEN LET last == IF i + Window - 1 < Len(lines)
                             THEN i + Window - 1 ELSE Len(lines)
                     J == {j \in i..last : IsGithubLine(lines[j])}
                 IN IF J = {} THEN lines
                    ELSE [lines EXCEPT
                            ![Min(J)] = FieldLine("github", NumStr(issue_number))]
            ELSE GithubFieldLoop(lines, i + 1, cid, task_id, issue_number)

\* Sync.update_tracker_github_field: the lines written back to tracker.md
update_tracker_github_field(lines, task_id, issue_number) ==
    GithubFieldLoop(lines, 1, None, task_id, issue_number)

\* ------------------------------------------------------------ push executor
\* labels = [l.strip() for l in ....split(',') if l.strip()] of
\* create_issue_on_github
CreateLabels(task) ==
    {Strip(l) : l \in {x \in Range(SplitComma(Get(task.metadata, "labels", ""))) :
                          Strip(x) # ""}}

\* the issue GitHubAPI.create_issue posts for a create change, as the remote
\* store keeps it under the next free number
CreatedIssue(number, change, mmap) ==
    LET task == change.task
        milestone_name == Get(task.metadata, "milestone", "")
        has_milestone == milestone_name \in DOMAIN mmap
    IN [number |-> number,
        title |-> task.title,
        state |-> "open",
        labels |-> CreateLabels(task),
        milestone |-> IF has_milestone
                      THEN RemoteMilestones[mmap[milestone_name]] ELSE None,
        body |-> IssueBody(change.task_id)]

\* the data dict GitHubAPI.update_issue patches for an update change
\* (update_issue_on_github resolves the milestone title first)
UpdateData(change, mmap) ==
    LET updates == change.updates
        has_milestone == /\ "milestone" \in DOMAIN updates
                         /\ updates["milestone"] \in DOMAIN mmap
        keys == {f \in {"title", "labels", "milestone", "state"} :
                    \/ f = "title" /\ Get(updates, "title", "") # ""
                    \/ f = "labels" /\ "labels" \in DOMAIN updates
                    \/ f = "milestone" /\ has_milestone
                    \/ f = "state" /\ Get(updates, "state", "") # ""}
    IN [f \in keys |->
           IF f = "milestone" THEN mmap[updates["milestone"]] ELSE updates[f]]

\* the effect of PATCH /issues/{number} on the remote issue
PatchIssue(issue, data) ==
    [number |-> issue.number,
     title |-> Get(data, "title", issue.title),
     state |-> Get(data, "state", issue.state),
     labels |-> Get(data, "labels", issue.labels),
     milestone |-> IF "milestone" \in DOMAIN data
                   THEN RemoteMilestones[data["milestone"]] ELSE issue.milestone,
     body |-> issue.body]

\* ------------------------------------------------------------ state
VARIABLES
    file,          \* the lines of tracker.md
    tmp_file,      \* the lines of tracker.md.tmp, None while it does not exist
    issues,        \* the remote store: the issues of the repository, by number
    projects,      \* number of project containers created on the remote store
    pc,            \* position of the current invocation of main()/Sync.run
    runs,          \* invocations started so far
    milestone_map, \* Sync.milestone_map
    project_id,    \* Sync.project_id
    github_data,   \* the tracker_map of the snapshot of this run
    local_tasks,   \* the task records parsed in this run
    changes,       \* the change list of this run
    k,             \* index of the next change push_changes applies
    ui_changes,    \* the action list of detect_ui_changes
    calls,         \* the mutating remote calls of this run, in order
    newline,       \* the line terminator of the lines of tracker.md
    rewrite,       \* the call of a rewriter in progress: its arguments, the
                   \* lines it read and the lines it writes
    reader         \* the contents concurrent readers got from tracker.md

vars == <<file, tmp_file, issues, projects, pc, runs, milestone_map, project_id,
          github_data, local_tasks, changes, k, ui_changes, calls, newline,
          rewrite, reader>>

procVars == <<milestone_map, project_id, github_data, local_tasks, changes, k,
              ui_changes, calls>>

\* the state of the line-by-line view of a rewrite
ioVars == <<newline, rewrite, reader>>

\* no rewriter has been called
NoRewrite ==
    [fn |-> None, task_ids |-> {}, before |-> [lines |-> <<>>, newline |-> "\n"],
     lines |-> <<>>, newline |-> "\n"]

\* ------------------------------------------------------------ generated inputs
Concat(a, b) == a \o b

\* the tracker id and title of the n-th generated block
BlockId(n) == IF n = 1 THEN "T1" ELSE IF n = 2 THEN "T2" ELSE "T3"
BlockTitle(n) == IF n = 1 THEN "A" ELSE IF n = 2 THEN "B" ELSE "D"

\* a task block of tracker.md in one of the layouts of the persisted format
Block(layout, mark, title, id, gh, extra) ==
    CASE layout = "id_gh" ->
            <<TaskLine(mark, title), FieldLine("id", id), FieldLine("github", gh)>>
            \o extra
      [] layout = "gh_id" ->
            <<TaskLine(mark, title), FieldLine("github", gh), FieldLine("id", id)>>
            \o extra
      [] layout = "id" ->
            <<TaskLine(mark, title), FieldLine("id", id)>> \o extra
      [] layout = "blank_id_gh" ->
            <<TaskLine(mark, title), BlankLine, FieldLine("id", id),
              FieldLine("github", gh)>> \o extra
      [] layout = "noid" ->
            <<TaskLine(mark, title)>> \o extra

\* files of n blocks, each block drawn from blocks[i]
RECURSIVE FilesOf(_, _)
FilesOf(n, blocks) ==
    IF n = 0 THEN {<<>>}
    ELSE {Concat(f, b) : f \in FilesOf(n - 1, blocks), b \in blocks[n]}

\* remote stores of n issues, the i-th drawn from variants and numbered i
RECURSIVE StoresOf(_, _)
StoresOf(n, variants) ==
    IF n = 0 THEN {<<>>}
    ELSE {Append(st, [v EXCEPT !.number = n]) :
            st \in StoresOf(n - 1, variants), v \in variants}

\* the blocks of the files sync runs are started on
RunBlocks(n) ==
    {Block(l[1], mark, BlockTitle(n), BlockId(n), l[2],
           <<FieldLine("labels", "a"), FieldLine("milestone", "m1")>>) :
        l \in {<<"id_gh", NumStr(n)>>, <<"id_gh", "">>, <<"id", "">>,
               <<"gh_id", NumStr(n)>>, <<"blank_id_gh", NumStr(n)>>,
               <<"noid", "">>},
        mark \in {" ", "x"}}

RunFiles ==
    UNION {FilesOf(n, [i \in 1..n |-> RunBlocks(i)]) : n \in 1..MaxBlocks}

\* the issues of the remote stores sync runs are started on
RunIssues ==
    {[number |-> 0, title |-> BlockTitle(n), state |-> st, labels |-> ls,
      milestone |-> "m1", body |-> IssueBody(BlockId(n))] :
        n \in 1..MaxBlocks, st \in {"open", "closed"}, ls \in {{"a"}, {}}}

RunStores == UNION {StoresOf(n, RunIssues) : n \in 0..MaxIssues}

\* ------------------------------------------------------------ Sync.run
\* a fresh process: Sync.__init__
FreshProc ==
    /\ milestone_map = EmptyDict
    /\ project_id = NoProject
    /\ github_data = EmptyDict
    /\ local_tasks = <<>>
    /\ changes = <<>>
    /\ k = 0
    /\ ui_changes = <<>>
    /\ calls = <<>>

Init ==
    /\ file \in RunFiles
    /\ tmp_file = None
    /\ issues \in RunStores
    /\ projects = 0
    /\ pc = "pull"
    /\ runs = 1
    /\ FreshProc
    /\ newline = "\n"
    /\ rewrite = NoRewrite
    /\ reader = {}

\* Phase 1, pull_github_state: both fetches succeed
PullGithubState ==
    /\ pc = "pull"
    /\ milestone_map' = BuildMilestoneMap(RemoteMilestones)
    /\ github_data' = pull_github_state(issues)
    /\ pc' = "parse"
    /\ UNCHANGED <<file, tmp_file, issues, projects, runs, project_id, local_tasks,
                   changes, k, ui_changes, calls>>
    /\ UNCHANGED ioVars

\* PullFails in a run that creates the project container before it pulls
PullFails_ProjectCreatedFirst ==
    /\ pc = "pull"
    /\ projects' = projects + 1
    /\ project_id' = projects + 1
    /\ calls' = Append(calls, [op |-> "create_project"])
    /\ pc' = "failed"
    /\ UNCHANGED <<file, tmp_file, issues, runs, milestone_map, github_data,
                   local_tasks, changes, k, ui_changes>>
    /\ UNCHANGED ioVars

\* Phase 1: get_issues or get_milestones raises, main() exits nonzero
PullFails ==
    /\ pc = "pull"
    /\ pc' = "failed"
    /\ UNCHANGED <<file, tmp_file, issues, projects, runs, procVars>>
    /\ UNCHANGED ioVars

\* Phase 2, parse_tracker
ParseTracker ==
    /\ pc = "parse"
    /\ local_tasks' = Parse(file)
    /\ pc' = "diff"
    /\ UNCHANGED <<file, tmp_file, issues, projects, runs, milestone_map, project_id,
                   github_data, changes, k, ui_changes, calls>>
    /\ UNCHANGED ioVars

\* Phase 3, compute_diff
ComputeDiff ==
    /\ pc = "diff"
    /\ changes' = compute_diff(local_tasks, github_data)
    /\ pc' = "push"
    /\ UNCHANGED <<file, tmp_file, issues, projects, runs, milestone_map, project_id,
                   github_data, local_tasks, k, ui_changes, calls>>
    /\ UNCHANGED ioVars

\* PushNothing in a push_changes that ensures the project container before it
\* looks at the change list
PushNothing_CreatesProject ==
    /\ pc = "push"
    /\ changes = <<>>
    /\ projects' = projects + 1
    /\ project_id' = projects + 1
    /\ calls' = Append(calls, [op |-> "create_project"])
    /\ pc' = "detect"
    /\ UNCHANGED <<file, tmp_file, issues, runs, milestone_map, github_data,
                   local_tasks, changes, k, ui_changes>>
    /\ UNCHANGED ioVars

\* Phase 4, push_changes with an empty change list
PushNothing ==
    /\ pc = "push"
    /\ changes = <<>>
    /\ pc' = "detect"
    /\ UNCHANGED <<file, tmp_file, issues, projects, runs, procVars>>
    /\ UNCHANGED ioVars

\* Phase 4, push_changes: the project container is created before the loop
CreateProject ==
    /\ pc = "push"
    /\ changes # <<>>
    /\ project_id = NoProject
    /\ projects' = projects + 1
    /\ project_id' = projects + 1
    /\ calls' = Append(calls, [op |-> "create_project"])
    /\ k' = 1
    /\ pc' = "apply"
    /\ UNCHANGED <<file, tmp_file, issues, runs, milestone_map, github_data, local_tasks,
                   changes, ui_changes>>
    /\ UNCHANGED ioVars

\* create_project raises
CreateProjectFails ==
    /\ pc = "push"
    /\ changes # <<>>
    /\ pc' = "failed"
    /\ UNCHANGED <<file, tmp_file, issues, projects, runs, procVars>>
    /\ UNCHANGED ioVars

\* create_issue_on_github: create, link into the project, write github: back
ApplyCreate ==
    /\ pc = "apply"
    /\ k <= Len(changes)
    /\ changes[k].action = "create"
    /\ LET issue == CreatedIssue(Len(issues) + 1, changes[k], milestone_map)
       IN /\ issues' = Append(issues, issue)
          /\ calls' = calls \o
                << [op |-> "create_issue", number |-> issue.number,
                    task_id |-> changes[k].task_id],
                   [op |-> "add_issue_to_project", number |-> issue.number,
                    project |-> project_id] >>
          /\ tmp_file' = update_tracker_github_field(file, changes[k].task_id,
                                                     issue.number)
    /\ pc' = "replace_github"
    /\ UNCHANGED <<file, projects, runs, milestone_map, project_id, github_data,
                   local_tasks, changes, k, ui_changes>>
    /\ UNCHANGED ioVars

\* os.replace(temp_file, TRACKER_FILE) of update_tracker_github_field; the
\* loop of push_changes goes on to the next change
ReplaceGithubField ==
    /\ pc = "replace_github"
    /\ file' = tmp_file
    /\ tmp_file' = None
    /\ k' = k + 1
    /\ pc' = "apply"
    /\ UNCHANGED <<issues, projects, runs, milestone_map, project_id,
                   github_data, local_tasks, changes, ui_changes, calls>>
    /\ newline' = TranslateOnWrite(TranslateOnRead(newline))
    /\ UNCHANGED <<rewrite, reader>>

\* create_issue raises: nothing was created
CreateIssueFails ==
    /\ pc = "apply"
    /\ k <= Len(changes)
    /\ changes[k].action = "create"
    /\ pc' = "failed"
    /\ UNCHANGED <<file, tmp_file, issues, projects, runs, procVars>>
    /\ UNCHANGED ioVars

\* add_issue_to_project raises: the issue exists, tracker.md is not written
LinkFails ==
    /\ pc = "apply"
    /\ k <= Len(changes)
    /\ changes[k].action = "create"
    /\ LET issue == CreatedIssue(Len(issues) + 1, changes[k], milestone_map)
       IN /\ issues' = Append(issues, issue)
          /\ calls' = Append(calls,
                [op |-> "create_issue", number |-> issue.number,
                 task_id |-> changes[k].task_id])
    /\ pc' = "failed"
    /\ UNCHANGED <<file, tmp_file, projects, runs, milestone_map, project_id,
                   github_data, local_tasks, changes, k, ui_changes>>
    /\ UNCHANGED ioVars

\* update_issue_on_github
ApplyUpdate ==
    /\ pc = "apply"
    /\ k <= Len(changes)
    /\ changes[k].action = "update"
    /\ LET number == changes[k].github_number
           data == UpdateData(changes[k], milestone_map)
       IN /\ issues' = [issues EXCEPT ![number] = PatchIssue(@, data)]
          /\ calls' = Append(calls,
                [op |-> "update_issue", number |-> number, data |-> data])
    /\ k' = k + 1
    /\ UNCHANGED <<file, tmp_file, projects, pc, runs, milestone_map,
                   project_id, github_data, local_tasks, changes, ui_changes>>
    /\ UNCHANGED ioVars

\* UpdateIssueFails with the error swallowed: the loop of push_changes goes on
\* to the next change
UpdateIssueFails_Swallowed ==
    /\ pc = "apply"
    /\ k <= Len(changes)
    /\ changes[k].action = "update"
    /\ k' = k + 1
    /\ UNCHANGED <<file, tmp_file, issues, projects, pc, runs, milestone_map,
                   project_id, github_data, local_tasks, changes, ui_changes, calls>>
    /\ UNCHANGED ioVars

\* update_issue raises
UpdateIssueFails ==
    /\ pc = "apply"
    /\ k <= Len(changes)
    /\ changes[k].action = "update"
    /\ pc' = "failed"
    /\ UNCHANGED <<file, tmp_file, issues, projects, runs, procVars>>
    /\ UNCHANGED ioVars

\* the loop of push_changes is over
PushDone ==
    /\ pc = "apply"
    /\ k > Len(changes)
    /\ pc' = "detect"
    /\ UNCHANGED <<file, tmp_file, issues, projects, runs, procVars>>
    /\ UNCHANGED ioVars

\* Phase 5, detect_ui_changes on the snapshot and the task records of phases 1-2
DetectUiChanges ==
    /\ pc = "detect"
    /\ ui_changes' = detect_ui_changes(github_data, local_tasks)
    /\ pc' = "rewrite"
    /\ UNCHANGED <<file, tmp_file, issues, projects, runs, milestone_map, project_id,
                   github_data, local_tasks, changes, k, calls>>
    /\ UNCHANGED ioVars

\* Phase 6 is skipped when there are no ui changes: Sync complete
NoUiChanges ==
    /\ pc = "rewrite"
    /\ ui_changes = <<>>
    /\ pc' = "done"
    /\ UNCHANGED <<file, tmp_file, issues, projects, runs, procVars>>
    /\ UNCHANGED ioVars

\* Phase 6, update_tracker: the rewritten lines go to tracker.md.tmp
UpdateTracker ==
    /\ pc = "rewrite"
    /\ ui_changes # <<>>
    /\ tmp_file' = update_tracker(file, ui_changes)
    /\ pc' = "replace_tracker"
    /\ UNCHANGED <<file, issues, projects, runs, procVars>>
    /\ UNCHANGED ioVars

\* os.replace(temp_file, TRACKER_FILE) of update_tracker; then Sync complete
ReplaceTracker ==
    /\ pc = "replace_tracker"
    /\ file' = tmp_file
    /\ tmp_file' = None
    /\ pc' = "done"
    /\ UNCHANGED <<issues, projects, runs, procVars>>
    /\ newline' = TranslateOnWrite(TranslateOnRead(newline))
    /\ UNCHANGED <<rewrite, reader>>

\* the next invocation of main(): a new process with a new Sync object
NextRun ==
    /\ pc \in {"done", "failed"}
    /\ runs < MaxRuns
    /\ runs' = runs + 1
    /\ pc' = "pull"
    /\ milestone_map' = EmptyDict
    /\ project_id' = NoProject
    /\ github_data' = EmptyDict
    /\ local_tasks' = <<>>
    /\ changes' = <<>>
    /\ k' = 0
    /\ ui_changes' = <<>>
    /\ calls' = <<>>
    /\ UNCHANGED <<file, tmp_file, issues, projects>>
    /\ UNCHANGED ioVars

Next ==
    \/ PullGithubState
    \/ PullFails
    \/ ParseTracker
    \/ ComputeDiff
    \/ PushNothing
    \/ CreateProject
    \/ CreateProjectFails
    \/ ApplyCreate
    \/ ReplaceGithubField
    \/ CreateIssueFails
    \/ LinkFails
    \/ ApplyUpdate
    \/ UpdateIssueFails
    \/ PushDone
    \/ DetectUiChanges
    \/ NoUiChanges
    \/ UpdateTracker
    \/ ReplaceTracker
    \/ NextRun

Spec == Init /\ [][Next]_vars

\* the runs of C4: no remote call fails
NextNoFail ==
    \/ PullGithubState
    \/ ParseTracker
    \/ ComputeDiff
    \/ PushNothing
    \/ CreateProject
    \/ ApplyCreate
    \/ ReplaceGithubField
    \/ ApplyUpdate
    \/ PushDone
    \/ DetectUiChanges
    \/ NoUiChanges
    \/ UpdateTracker
    \/ ReplaceTracker
    \/ NextRun

\* ------------------------------------------------------------ diff harness
\* compute_diff and detect_ui_changes are pure functions of the task records
\* and the snapshot: SpecDiff applies each of them to inputs drawn from a wide
\* set of field values (phases 1 and 2 have run on the generated file and store).

\* a field line, or nothing when the field is absent
OptField(key, val) == IF val = None THEN <<>> ELSE <<FieldLine(key, val)>>
OptSection(name) == IF name = None THEN <<>> ELSE <<SectionLine(name)>>

\* the first block of a diff input: every field varies
DiffBlocks ==
    {OptSection(sec) \o <<TaskLine(mark, title)>> \o OptField("id", id)
        \o OptField("github", gh) \o OptField("labels", ls)
        \o OptField("milestone", ms) :
        sec \in {None, "IDEAS"}, mark \in {" ", "x"}, title \in {"A", "B"},
        id \in {None, "T1"}, gh \in {None, "", "1"},
        ls \in {None, "", "a", "a,b", "a, b, a", "a,"},
        ms \in {None, "m1", "m2"}}

\* the further blocks of a diff input: a linked task in the default section
DiffMoreBlocks(n) ==
    {<<SectionLine("TODO")>> \o
     Block("id_gh", " ", BlockTitle(n), BlockId(n), NumStr(n),
           <<FieldLine("labels", "a"), FieldLine("milestone", "m1")>>)}

DiffFiles ==
    UNION {FilesOf(n, [i \in 1..n |-> IF i = 1 THEN DiffBlocks
                                      ELSE DiffMoreBlocks(i)]) :
            n \in 1..MaxBlocks}

\* the first issue of a diff input: every field varies
DiffIssues ==
    {[number |-> 0, title |-> title, state |-> st, labels |-> ls,
      milestone |-> ms, body |-> IssueBody("T1")] :
        title \in {"A", "B"}, st \in {"open", "closed"},
        ls \in {{}, {"a"}, {"a", "b"}}, ms \in {None, "m1"}}

\* the further issues of a diff input: the open issue of the n-th block
DiffMoreIssue(n) ==
    [number |-> n, title |-> BlockTitle(n), state |-> "open", labels |-> {"a"},
     milestone |-> "m1", body |-> IssueBody(BlockId(n))]

RECURSIVE DiffStoresOf(_)
DiffStoresOf(n) ==
    IF n = 0 THEN {<<>>}
    ELSE IF n = 1 THEN {<<[v EXCEPT !.number = 1]>> : v \in DiffIssues}
    ELSE {Append(st, DiffMoreIssue(n)) : st \in DiffStoresOf(n - 1)}

DiffStores == UNION {DiffStoresOf(n) : n \in 0..MaxIssues}

InitDiff ==
    /\ file \in DiffFiles
    /\ tmp_file = None
    /\ issues \in DiffStores
    /\ projects = 0
    /\ pc = "diff"
    /\ runs = 1
    /\ milestone_map = BuildMilestoneMap(RemoteMilestones)
    /\ project_id = NoProject
    /\ github_data = pull_github_state(issues)
    /\ local_tasks = Parse(file)
    /\ changes = <<>>
    /\ k = 0
    /\ ui_changes = <<>>
    /\ calls = <<>>
    /\ newline = "\n"
    /\ rewrite = NoRewrite
    /\ reader = {}

\* detect_ui_changes applied to the inputs compute_diff gets
CallDetectUiChanges ==
    /\ pc = "diff"
    /\ ui_changes' = detect_ui_changes(github_data, local_tasks)
    /\ pc' = "rewrite"
    /\ UNCHANGED <<file, tmp_file, issues, projects, runs, milestone_map,
                   project_id, github_data, local_tasks, changes, k, calls>>
    /\ UNCHANGED ioVars

NextDiff ==
    \/ ComputeDiff
    \/ CallDetectUiChanges

SpecDiff == InitDiff /\ [][NextDiff]_vars

\* ------------------------------------------------------------ single run
\* one invocation of main() on inputs whose first task varies in its github
\* value and its milestone, next to further tasks that are checked and linked
\* or pending
OnceBlocks ==
    {Block(l[1], mark, BlockTitle(1), BlockId(1), l[2],
           <<FieldLine("labels", "a")>> \o OptField("milestone", ms)) :
        l \in {<<"id_gh", "1">>, <<"id_gh", "2">>, <<"id", "">>},
        mark \in {" ", "x"},
        ms \in {None, "m1", "m2"}}

OnceMoreBlocks(n) ==
    {Block("id_gh", "x", BlockTitle(n), BlockId(n), NumStr(n),
           <<FieldLine("labels", "a"), FieldLine("milestone", "m1")>>),
     Block("id", " ", BlockTitle(n), BlockId(n), "",
           <<FieldLine("labels", "a"), FieldLine("milestone", "m1")>>)}

OnceFiles ==
    UNION {FilesOf(n, [i \in 1..n |-> IF i = 1 THEN OnceBlocks
                                      ELSE OnceMoreBlocks(i)]) :
            n \in 1..MaxBlocks}

\* the issue of the first task varies in state and milestone; the issues of
\* the further tasks are open
OnceIssues ==
    {[number |-> 0, title |-> BlockTitle(1), state |-> st, labels |-> {"a"},
      milestone |-> ms, body |-> IssueBody(BlockId(1))] :
        st \in {"open", "closed"}, ms \in {None, "m1"}}
    \cup {[number |-> 0, title |-> BlockTitle(n), state |-> "open",
           labels |-> {"a"}, milestone |-> "m1", body |-> IssueBody(BlockId(n))] :
            n \in 2..MaxBlocks}

OnceStores == UNION {StoresOf(n, OnceIssues) : n \in 0..MaxIssues}

InitOnce ==
    /\ file \in OnceFiles
    /\ tmp_file = None
    /\ issues \in OnceStores
    /\ projects = 0
    /\ pc = "pull"
    /\ runs = 1
    /\ FreshProc
    /\ newline = "\n"
    /\ rewrite = NoRewrite
    /\ reader = {}

NextOnce ==
    \/ PullGithubState
    \/ PullFails
    \/ ParseTracker
    \/ ComputeDiff
    \/ PushNothing
    \/ CreateProject
    \/ CreateProjectFails
    \/ ApplyCreate
    \/ ReplaceGithubField
    \/ CreateIssueFails
    \/ LinkFails
    \/ ApplyUpdate
    \/ UpdateIssueFails
    \/ PushDone
    \/ DetectUiChanges
    \/ NoUiChanges
    \/ UpdateTracker
    \/ ReplaceTracker

SpecOnce == InitOnce /\ [][NextOnce]_vars

\* ------------------------------------------------------------ rewrite harness
\* the two rewriters called on their own, with the write of tracker.md.tmp
\* unfolded line by line and a concurrent reader of tracker.md
RewriteBlocks(n) ==
    {Block(l[1], mark, BlockTitle(n), BlockId(n), l[2], <<>>) :
        l \in {<<"id_gh", "">>, <<"id", "">>, <<"noid", "">>},
        mark \in {" ", "x"}}

RewriteFiles ==
    UNION {FilesOf(n, [i \in 1..n |-> RewriteBlocks(i)]) : n \in 1..MaxBlocks}

\* the ids a rewriter is called with: the ids of the blocks and a foreign one
RewriteIds == {BlockId(n) : n \in 1..MaxBlocks} \cup {"T9"}

\* the action lists update_tracker is called with
RewriteActions ==
    LET A == {[task_id |-> id, action |-> a] :
                id \in RewriteIds, a \in {"mark_done", "mark_todo"}}
    IN {<<a>> : a \in A} \cup {<<a, b>> : a \in A, b \in A}

\* the content of tracker.md on disk
Content == [lines |-> file, newline |-> newline]

InitRewrite ==
    /\ file \in RewriteFiles
    /\ newline \in {"\n", "\r\n"}
    /\ tmp_file = None
    /\ issues = <<>>
    /\ projects = 0
    /\ pc = "rewrite_call"
    /\ runs = 1
    /\ FreshProc
    /\ rewrite = NoRewrite
    /\ reader = {}

\* update_tracker up to open(temp_file, 'w'): the lines are read, changed in
\* memory, and the temporary file is opened
CallUpdateTracker ==
    /\ pc = "rewrite_call"
    /\ \E ui \in RewriteActions :
          rewrite' = [fn |-> "update_tracker",
                      task_ids |-> {ui[c].task_id : c \in DOMAIN ui},
                      before |-> Content,
                      lines |-> update_tracker(file, ui),
                      newline |-> TranslateOnRead(newline)]
    /\ tmp_file' = <<>>
    /\ pc' = "rewrite_write"
    /\ UNCHANGED <<file, newline, reader, issues, projects, runs, procVars>>

\* update_tracker_github_field up to open(temp_file, 'w')
CallUpdateTrackerGithubField ==
    /\ pc = "rewrite_call"
    /\ \E task_id \in RewriteIds, issue_number \in 1..MaxIssues :
          rewrite' = [fn |-> "update_tracker_github_field",
                      task_ids |-> {task_id},
                      before |-> Content,
                      lines |-> update_tracker_github_field(file, task_id,
                                                            issue_number),
                      newline |-> TranslateOnRead(newline)]
    /\ tmp_file' = <<>>
    /\ pc' = "rewrite_write"
    /\ UNCHANGED <<file, newline, reader, issues, projects, runs, procVars>>

\* WriteLine with temp_file naming tracker.md itself: the lines are written
\* in place
WriteLine_InPlace ==
    /\ pc = "rewrite_write"
    /\ Len(tmp_file) < Len(rewrite.lines)
    /\ tmp_file' = Append(tmp_file, rewrite.lines[Len(tmp_file) + 1])
    /\ file' = tmp_file'
    /\ newline' = TranslateOnWrite(rewrite.newline)
    /\ UNCHANGED <<rewrite, reader, issues, projects, pc, runs, procVars>>

\* f.writelines(lines): the next line reaches tracker.md.tmp
WriteLine ==
    /\ pc = "rewrite_write"
    /\ Len(tmp_file) < Len(rewrite.lines)
    /\ tmp_file' = Append(tmp_file, rewrite.lines[Len(tmp_file) + 1])
    /\ UNCHANGED <<file, newline, rewrite, reader, issues, projects, pc, runs,
                   procVars>>

\* os.replace(temp_file, TRACKER_FILE)
OsReplace ==
    /\ pc = "rewrite_write"
    /\ Len(tmp_file) = Len(rewrite.lines)
    /\ file' = tmp_file
    /\ newline' = TranslateOnWrite(rewrite.newline)
    /\ tmp_file' = None
    /\ pc' = "rewrite_done"
    /\ UNCHANGED <<rewrite, reader, issues, projects, runs, procVars>>

\* another process reads tracker.md
ReadTracker ==
    /\ reader' = reader \cup {Content}
    /\ UNCHANGED <<file, tmp_file, newline, rewrite, issues, projects, pc, runs,
                   procVars>>

NextRewrite ==
    \/ CallUpdateTracker
    \/ CallUpdateTrackerGithubField
    \/ WriteLine
    \/ OsReplace
    \/ ReadTracker

SpecRewrite == InitRewrite /\ [][NextRewrite]_vars

\* ------------------------------------------------------------ parse harness
\* TrackerParser.parse on every file of up to MaxLines lines over a small
\* alphabet of task, heading, field and blank lines
ParseAlphabet ==
    {TaskLine(" ", "A"), TaskLine("x", "B"), SectionLine("TODO"),
     FieldLine("id", "T1"), FieldLine("github", "1"), BlankLine}

RECURSIVE SeqsOf(_, _)
SeqsOf(n, S) ==
    IF n = 0 THEN {<<>>}
    ELSE {Append(s, x) : s \in SeqsOf(n - 1, S), x \in S}

ParseFiles == UNION {SeqsOf(n, ParseAlphabet) : n \in 1..MaxLines}

InitParse ==
    /\ file \in ParseFiles
    /\ tmp_file = None
    /\ issues = <<>>
    /\ projects = 0
    /\ pc = "parse"
    /\ runs = 1
    /\ FreshProc
    /\ newline = "\n"
    /\ rewrite = NoRewrite
    /\ reader = {}

NextParse == ParseTracker

SpecParse == InitParse /\ [][NextParse]_vars

\* ------------------------------------------------------------ vocabulary
\* a managed task: non-empty id, outside the IDEAS section
Managed(task) == Get(task.metadata, "id", "") # "" /\ task.section # "IDEAS"
\* a linked task: its github field is populated
Linked(task) == Get(task.metadata, "github", "") # ""
TaskId(task) == Get(task.metadata, "id", "")

\* the local label set of the specification: the comma-separated field with
\* each element trimmed and the empty elements dropped
LocalLabelSet(task) ==
    {Strip(x) : x \in Range(SplitComma(Get(task.metadata, "labels", "")))} \ {""}

\* the remote milestone title, an absent milestone counting as ""
RemoteMilestoneTitle(entry) == IF entry.milestone = None THEN "" ELSE entry.milestone

\* the line that opens the block line j lies in: the nearest task or section
\* line at or before j (0 before the first one)
BlockStart(lines, j) ==
    LET S == {i \in 1..j : IsTaskLine(lines[i]) \/ IsSectionLine(lines[i])}
    IN IF S = {} THEN 0 ELSE Max(S)

\* the lines of the block of the task with tracker id `id`
BlockOfId(lines, id) ==
    {j \in DOMAIN lines :
        \E i \in DOMAIN lines :
            /\ lines[i] = FieldLine("id", id)
            /\ BlockStart(lines, i) # 0
            /\ IsTaskLine(lines[BlockStart(lines, i)])
            /\ BlockStart(lines, j) = BlockStart(lines, i)}

\* the checkbox line of the task with tracker id `id`
TaskLineOfId(lines, id) == {j \in BlockOfId(lines, id) : IsTaskLine(lines[j])}

\* the indexes of the changes / actions that carry tracker id `id`
ChangesOf(id) == {c \in DOMAIN changes : changes[c].task_id = id}
ActionsOf(id) == {a \in DOMAIN ui_changes : ui_changes[a].task_id = id}

\* a managed linked task whose id has an entry in the snapshot
Resolved(task, tracker_map) ==
    Managed(task) /\ Linked(task) /\ TaskId(task) \in DOMAIN tracker_map

\* the snapshot is consistent with the local tasks
Consistent(tasks, tracker_map) ==
    \A i \in DOMAIN tasks :
        Managed(tasks[i]) =>
            /\ Resolved(tasks[i], tracker_map)
            /\ LET t == tasks[i]
                   e == tracker_map[TaskId(tasks[i])]
               IN /\ e.title = t.title
                  /\ e.labels = LocalLabelSet(t)
                  /\ RemoteMilestoneTitle(e) = Get(t.metadata, "milestone", "")
                  /\ (e.state = "closed" <=> t.checked)

NoDuplicateMarkers(iss) ==
    \A i, j \in DOMAIN iss :
        i < j /\ extract_tracker_id(iss[i].body) # None
            => extract_tracker_id(iss[i].body) # extract_tracker_id(iss[j].body)

\* a start without leftovers of earlier failures: unique markers, and no issue
\* yet for a task that is still pending
CleanStart ==
    /\ NoDuplicateMarkers(issues)
    /\ \A i \in DOMAIN Parse(file) :
          LET t == Parse(file)[i]
          IN Managed(t) /\ ~Linked(t)
                => TaskId(t) \notin DOMAIN pull_github_state(issues)

InitNoFail == Init /\ CleanStart

SpecNoFail == InitNoFail /\ [][NextNoFail]_vars

\* ------------------------------------------------------------ claims

\* C2: after a run of Sync.run that completes without failure, every managed
\* linked task whose id resolves to a remote issue is checked in the file
\* exactly when that issue is closed.
C2_CheckedTracksRemoteState ==
    pc = "done" =>
        \A i \in DOMAIN Parse(file) :
            LET t == Parse(file)[i]
                tracker_map == pull_github_state(issues)
            IN Managed(t) /\ Linked(t) /\ TaskId(t) \in DOMAIN tracker_map
                  => (t.checked <=> tracker_map[TaskId(t)].state = "closed")

\* C3: a managed task without github value gets exactly one create change, and
\* once push_changes has applied it the block of the task in tracker.md holds
\* the line github: N, N the number the create call returned, also when the
\* block had no github: line before.
C3_CreateWritesGithubLine ==
    /\ pc = "push" =>
          \A i \in DOMAIN local_tasks :
              Managed(local_tasks[i]) /\ ~Linked(local_tasks[i])
                  => Cardinality({c \in DOMAIN changes :
                                     /\ changes[c].action = "create"
                                     /\ changes[c].task_id = TaskId(local_tasks[i])})
                       = 1
    /\ \A j \in 1..(k - 1) :
          changes[j].action = "create"
              => \E c \in DOMAIN calls :
                    /\ calls[c].op = "create_issue"
                    /\ calls[c].task_id = changes[j].task_id
                    /\ \E l \in BlockOfId(file, changes[j].task_id) :
                          file[l] = FieldLine("github", NumStr(calls[c].number))

\* C4: over successful runs with unique local ids and no outside edit, the
\* remote store never holds two issues whose marker carries the same tracker
\* id (a task whose create succeeded is not created again).
C4_NoDuplicateIssues == NoDuplicateMarkers(issues)

\* C5: update_tracker sets the checkbox of the task line of each action's task
\* (mark_done: [x], mark_todo: [ ]) and leaves every other line of the file
\* identical, whatever the layout of the following block.
C5_ToggleTouchesOnlyOwnLine ==
    pc = "replace_tracker" =>
        /\ Len(tmp_file) = Len(file)
        /\ \A j \in DOMAIN file :
              LET acts == {a \in DOMAIN ui_changes :
                              j \in TaskLineOfId(file, ui_changes[a].task_id)}
              IN IF acts = {}
                 THEN tmp_file[j] = file[j]
                 ELSE \A a \in acts :
                        tmp_file[j].mark =
                            IF ui_changes[a].action = "mark_done" THEN "x" ELSE " "

\* C6: update_tracker_github_field(T, N) changes no line of a task other than
\* T, so a github value that was non-empty stays as it was.
C6_GithubWriteStaysInBlock ==
    pc = "replace_github" =>
        /\ Len(tmp_file) = Len(file)
        /\ \A j \in DOMAIN file :
              j \notin BlockOfId(file, changes[k].task_id) => tmp_file[j] = file[j]
        /\ \A i \in DOMAIN Parse(file) :
              Linked(Parse(file)[i])
                  => Get(Parse(tmp_file)[i].metadata, "github", "")
                       = Get(Parse(file)[i].metadata, "github", "")

\* C1: on a snapshot consistent with the local tasks compute_diff returns the
\* empty change list.
C1_ConsistentDiffIsEmpty ==
    pc = "push" /\ Consistent(local_tasks, github_data) => changes = <<>>

\* C7: detect_ui_changes returns exactly one action for each managed linked
\* task whose checked flag disagrees with the state of its resolved issue
\* (mark_done for closed/unchecked, mark_todo for open/checked) and no action
\* for any other task.
C7_DetectExactlyDisagreeing ==
    pc = "rewrite" =>
        /\ \A i \in DOMAIN local_tasks :
              LET t == local_tasks[i]
                  disagrees == /\ Resolved(t, github_data)
                               /\ t.checked #
                                    (github_data[TaskId(t)].state = "closed")
              IN IF disagrees
                 THEN /\ Cardinality(ActionsOf(TaskId(t))) = 1
                      /\ \A a \in ActionsOf(TaskId(t)) :
                            ui_changes[a].action =
                                IF t.checked THEN "mark_todo" ELSE "mark_done"
                 ELSE ActionsOf(TaskId(t)) = {}
        /\ \A a \in DOMAIN ui_changes :
              \E i \in DOMAIN local_tasks :
                  TaskId(local_tasks[i]) = ui_changes[a].task_id

\* C8: when the local label set (split on commas, trimmed, empties dropped)
\* equals the remote label set, the update of the task carries no labels entry.
C8_EqualLabelSetsNoEntry ==
    pc = "push" =>
        \A i \in DOMAIN local_tasks :
            LET t == local_tasks[i]
            IN Resolved(t, github_data)
                  /\ LocalLabelSet(t) = github_data[TaskId(t)].labels
                  => \A c \in ChangesOf(TaskId(t)) :
                        "labels" \notin DOMAIN changes[c].updates

\* C9: when the local label set differs from the remote one, the update of the
\* task carries exactly the local label set, without empty or untrimmed names.
C9_UpdateCarriesLocalLabelSet ==
    pc = "push" =>
        \A i \in DOMAIN local_tasks :
            LET t == local_tasks[i]
            IN Resolved(t, github_data)
                  /\ LocalLabelSet(t) # github_data[TaskId(t)].labels
                  => \E c \in ChangesOf(TaskId(t)) :
                        /\ changes[c].action = "update"
                        /\ "labels" \in DOMAIN changes[c].updates
                        /\ changes[c].updates["labels"] = LocalLabelSet(t)

\* C10: the update of a task carries a milestone entry exactly when the local
\* milestone field differs as a string from the remote milestone title, an
\* absent remote milestone counting as the empty string.
C10_MilestoneEntryIffDiffers ==
    pc = "push" =>
        \A i \in DOMAIN local_tasks :
            LET t == local_tasks[i]
            IN Resolved(t, github_data) =>
                  ((\E c \in ChangesOf(TaskId(t)) :
                        /\ changes[c].action = "update"
                        /\ "milestone" \in DOMAIN changes[c].updates)
                   <=> Get(t.metadata, "milestone", "")
                         # RemoteMilestoneTitle(github_data[TaskId(t)]))

\* the update changes of tracker id `id` that carry the state entry `s`
StateEntries(id, s) ==
    {c \in ChangesOf(id) :
        /\ changes[c].action = "update"
        /\ "state" \in DOMAIN changes[c].updates
        /\ changes[c].updates["state"] = s}

\* C11: for every managed linked task whose id resolves to a snapshot entry,
\* the update change of compute_diff carries state: closed exactly when the
\* task is checked and the remote issue is open, state: open exactly when the
\* task is unchecked and the remote issue is closed, and no state entry when
\* the checkbox and the remote state agree.
C11_StateEntryFollowsCheckbox ==
    pc = "push" =>
        \A i \in DOMAIN local_tasks :
            LET t == local_tasks[i]
            IN Resolved(t, github_data) =>
                  LET e == github_data[TaskId(t)]
                  IN /\ StateEntries(TaskId(t), "closed") # {}
                          <=> (t.checked /\ e.state = "open")
                     /\ StateEntries(TaskId(t), "open") # {}
                          <=> (~t.checked /\ e.state = "closed")
                     /\ (t.checked <=> e.state = "closed")
                          => \A c \in ChangesOf(TaskId(t)) :
                                 "state" \notin DOMAIN changes[c].updates

\* C11 witness: compute_diff has emitted state: closed for a checked task whose
\* issue is open, next to a resolved task that agrees with its issue and got no
\* state entry
C11_Witness ==
    /\ pc = "push"
    /\ \E i, j \in DOMAIN local_tasks :
          /\ Resolved(local_tasks[i], github_data)
          /\ local_tasks[i].checked
          /\ github_data[TaskId(local_tasks[i])].state = "open"
          /\ StateEntries(TaskId(local_tasks[i]), "closed") # {}
          /\ Resolved(local_tasks[j], github_data)
          /\ ~local_tasks[j].checked
          /\ github_data[TaskId(local_tasks[j])].state = "open"
          /\ StateEntries(TaskId(local_tasks[j]), "open") = {}

\* C12: a task with an empty id, or in the section IDEAS (with or without id),
\* never appears in the change list of compute_diff, neither as create nor as
\* update, nor in the action list of detect_ui_changes, whatever the snapshot
\* holds.
C12_UnmanagedTasksIgnored ==
    \A i \in DOMAIN local_tasks :
        LET t == local_tasks[i]
        IN ~Managed(t) =>
              /\ pc = "push" =>
                    /\ ChangesOf(TaskId(t)) = {}
                    /\ \A c \in DOMAIN changes :
                          changes[c].action = "create" => changes[c].task # t
              /\ pc = "rewrite" => ActionsOf(TaskId(t)) = {}

\* C12 witness: compute_diff has run on a checked task of the section IDEAS
\* that carries an id and a github value and whose snapshot entry is open
C12_Witness ==
    /\ pc = "push"
    /\ \E i \in DOMAIN local_tasks :
          /\ local_tasks[i].section = "IDEAS"
          /\ TaskId(local_tasks[i]) \in DOMAIN github_data
          /\ Linked(local_tasks[i])
          /\ local_tasks[i].checked
          /\ github_data[TaskId(local_tasks[i])].state = "open"

IsUpdateChange(c) == c.action = "update"
IsUpdateCall(c) == c.op = "update_issue"

\* the update changes push_changes has applied so far, and the update calls
\* the remote store has received so far
AppliedUpdates == SelectSeq(SubSeq(changes, 1, k - 1), IsUpdateChange)
UpdateCalls == SelectSeq(calls, IsUpdateCall)

\* C13: every update change, and the remote update call made for it, targets
\* the issue number of the snapshot entry whose marker equals the id of the
\* task, whatever the github field of the task holds (also a github value that
\* names another issue).
C13_UpdateTargetsMarkerIssue ==
    /\ \A c \in DOMAIN changes :
          changes[c].action = "update" =>
              /\ changes[c].task_id \in DOMAIN github_data
              /\ changes[c].github_number = github_data[changes[c].task_id].number
              /\ changes[c].github_number \in DOMAIN issues
              /\ extract_tracker_id(issues[changes[c].github_number].body)
                    = changes[c].task_id
    /\ pc \in {"apply", "replace_github", "detect", "rewrite", "replace_tracker",
               "done", "failed"} =>
          /\ Len(UpdateCalls) = Len(AppliedUpdates)
          /\ \A i \in DOMAIN UpdateCalls :
                UpdateCalls[i].number
                    = github_data[AppliedUpdates[i].task_id].number

\* C13 witness: an update call has gone to the issue that carries the marker of
\* a task whose github field names another issue
C13_Witness ==
    \E i \in DOMAIN UpdateCalls, j \in DOMAIN local_tasks :
        /\ AppliedUpdates[i].task_id = TaskId(local_tasks[j])
        /\ Linked(local_tasks[j])
        /\ Get(local_tasks[j].metadata, "github", "")
              # NumStr(UpdateCalls[i].number)
        /\ extract_tracker_id(issues[UpdateCalls[i].number].body)
              = TaskId(local_tasks[j])

IsIssueCall(c) == c.op \in {"create_issue", "update_issue"}

\* the create and update calls the remote store has received in this run
IssueCalls == SelectSeq(calls, IsIssueCall)

\* the call `call` is the submission of the change `change`
SubmissionOf(call, change) ==
    \/ /\ change.action = "create"
       /\ call.op = "create_issue"
       /\ call.task_id = change.task_id
    \/ /\ change.action = "update"
       /\ call.op = "update_issue"
       /\ call.number = change.github_number

\* what the call `call` did is in the remote store
AppliedRemotely(call) ==
    /\ call.number \in DOMAIN issues
    /\ call.op = "create_issue"
          => extract_tracker_id(issues[call.number].body) = call.task_id
    /\ call.op = "update_issue"
          => PatchIssue(issues[call.number], call.data) = issues[call.number]

\* C14: when the remote call for the k-th change of the change list fails in
\* push_changes, the run aborts with a nonzero exit: the changes 1..k-1 stay
\* applied remotely, the changes k+1..M are never submitted, and neither
\* detect_ui_changes nor the checkbox rewrite is executed in that run.
C14_FailedPushAbortsRun ==
    pc = "failed" /\ k >= 1 =>
        /\ Len(IssueCalls) \in {k - 1, k}
        /\ Len(IssueCalls) = k => changes[k].action = "create"
        /\ \A j \in 1..(k - 1) :
              /\ SubmissionOf(IssueCalls[j], changes[j])
              /\ AppliedRemotely(IssueCalls[j])
        /\ ui_changes = <<>>
        /\ tmp_file = None
        /\ Len(Parse(file)) = Len(local_tasks)
        /\ \A i \in DOMAIN local_tasks :
              Parse(file)[i].checked = local_tasks[i].checked

\* C14 witness: the call for the second of two changes has failed after the
\* first change was applied
C14_Witness ==
    /\ pc = "failed"
    /\ k = 2
    /\ Len(changes) = 2
    /\ Len(IssueCalls) = 1
    /\ SubmissionOf(IssueCalls[1], changes[1])
    /\ AppliedRemotely(IssueCalls[1])

\* C15: when fetching the issues or the milestones fails in pull_github_state,
\* the run ends with an error without any remote mutation (project creation,
\* issue create, issue update, project link) and without writing tracker.md:
\* the failing step leaves the remote store, the call log and the files as
\* they are, and nothing follows it in that run.
C15_FailedPullChangesNothing ==
    [][/\ pc = "pull" /\ pc' = "failed" =>
            /\ calls = <<>>
            /\ UNCHANGED <<file, tmp_file, issues, projects, calls, newline>>
       /\ pc = "failed" =>
            \/ UNCHANGED <<pc, file, tmp_file, issues, projects, calls, newline>>
            \/ pc' = "pull" /\ UNCHANGED <<file, tmp_file, issues, projects, newline>>
      ]_vars

\* C15 witness: a run on a non-empty store has ended in phase 1
C15_Witness ==
    /\ pc = "failed"
    /\ github_data = EmptyDict
    /\ local_tasks = <<>>
    /\ changes = <<>>
    /\ calls = <<>>
    /\ issues # <<>>

\* a managed linked task whose id has no entry in the snapshot of this run
Unresolved(task) ==
    Managed(task) /\ Linked(task) /\ TaskId(task) \notin DOMAIN github_data
NotUnresolved(task) == ~Unresolved(task)

\* C16: a task with a github value whose id is in no entry of the snapshot
\* contributes no change and does not stop the run: every other task of the
\* list is still diffed, and its changes are still pushed.
C16_UnresolvedTaskIsSkipped ==
    /\ pc \notin {"pull", "parse", "diff"} =>
          /\ \A i \in DOMAIN local_tasks :
                Unresolved(local_tasks[i]) => ChangesOf(TaskId(local_tasks[i])) = {}
          /\ changes = compute_diff(SelectSeq(local_tasks, NotUnresolved),
                                    github_data)
    /\ pc \in {"detect", "rewrite", "replace_tracker", "done"} =>
          /\ Len(IssueCalls) = Len(changes)
          /\ \A j \in DOMAIN changes : SubmissionOf(IssueCalls[j], changes[j])

\* C16 witness: the push of a run is over, the first task is linked and not in
\* the snapshot, and the change of a later task has been submitted
C16_Witness ==
    /\ pc = "detect"
    /\ Unresolved(local_tasks[1])
    /\ changes # <<>>
    /\ Len(IssueCalls) = Len(changes)

\* the positions of the project creations in the call log of this run
ProjectCalls == {i \in DOMAIN calls : calls[i].op = "create_project"}

\* C17: in every run the project container is created at most once, its
\* creation precedes every issue create, issue update and project link call
\* of that run, and it is not created at all when the change list is empty.
C17_ProjectCreatedOnceAndFirst ==
    /\ Cardinality(ProjectCalls) <= 1
    /\ projects = Cardinality(ProjectCalls)
    /\ \A i \in DOMAIN calls :
          calls[i].op \in {"create_issue", "update_issue", "add_issue_to_project"}
              => \E p \in ProjectCalls : p < i
    /\ \A i \in DOMAIN calls :
          calls[i].op = "add_issue_to_project" => calls[i].project = project_id
    /\ pc \notin {"pull", "parse", "diff"} /\ changes = <<>> => calls = <<>>

\* C17 witness: a push that created an issue, linked it and updated another
\* issue is over
C17_Witness ==
    /\ pc = "detect"
    /\ Cardinality(ProjectCalls) = 1
    /\ \E a, b, c \in DOMAIN calls :
          /\ calls[a].op = "create_issue"
          /\ calls[b].op = "add_issue_to_project"
          /\ calls[c].op = "update_issue"

\* C18: for every update change the patch submitted to the remote store holds
\* the changed fields and only them: each field of the differing-field set of
\* the change (title, labels, milestone resolved from title to number, state)
\* is sent with the local value, and no field outside that set is sent.
C18_PatchCarriesDifferingFields ==
    Len(UpdateCalls) = Len(AppliedUpdates) =>
        \A i \in DOMAIN UpdateCalls :
            LET updates == AppliedUpdates[i].updates
                data == UpdateCalls[i].data
            IN /\ DOMAIN data = DOMAIN updates
               /\ \A f \in DOMAIN data \cap {"title", "labels", "state"} :
                     data[f] = updates[f]
               /\ "milestone" \in DOMAIN data =>
                     /\ updates["milestone"] \in DOMAIN milestone_map
                     /\ data["milestone"] = milestone_map[updates["milestone"]]

\* the content of tracker.md once the rewrite in progress is over
After ==
    [lines |-> rewrite.lines, newline |-> TranslateOnWrite(rewrite.newline)]

\* C19: while a rewrite (update_tracker or update_tracker_github_field) is in
\* progress, a concurrent reader of tracker.md gets the complete content from
\* before the rewrite or the complete content after it, never a partially
\* written file.
C19_ReaderSeesBeforeOrAfter ==
    rewrite # NoRewrite =>
        /\ Content \in {rewrite.before, After}
        /\ reader \subseteq {rewrite.before, After}
        /\ pc = "rewrite_write" => Content = rewrite.before
        /\ pc = "rewrite_done" => Content = After

\* C19 witness: a reader has read tracker.md while tracker.md.tmp held a part
\* of the lines of a rewrite that changes the file
C19_Witness ==
    /\ pc = "rewrite_write"
    /\ reader = {rewrite.before}
    /\ rewrite.lines # rewrite.before.lines
    /\ tmp_file # <<>>
    /\ Len(tmp_file) < Len(rewrite.lines)

\* the rewrite in progress has nothing to change: none of the ids it was
\* called with occurs in an id: line of the file
NothingToChange ==
    \A j \in DOMAIN rewrite.before.lines :
        IsIdLine(rewrite.before.lines[j])
            => rewrite.before.lines[j].val \notin rewrite.task_ids

\* C20: a rewrite that has nothing to change leaves the content of the file
\* identical: update_tracker with actions whose ids occur in no id: line, and
\* update_tracker_github_field with an id that occurs in no id: line, write
\* back exactly the lines that were read.
C20_RewriteNothingIsIdentity ==
    pc = "rewrite_done" /\ NothingToChange => Content = rewrite.before

\* the positions of the task lines of the file, and the position of the i-th
TaskLines(lines) == {j \in DOMAIN lines : IsTaskLine(lines[j])}
TaskLineAt(lines, i) ==
    CHOOSE j \in TaskLines(lines) :
        Cardinality({p \in TaskLines(lines) : p <= j}) = i

\* the field lines with no task line and no section heading between them and
\* the task line at position p
FieldLinesOf(lines, p) ==
    {j \in DOMAIN lines :
        /\ j > p
        /\ IsFieldLine(lines[j])
        /\ \A m \in (p + 1)..(j - 1) :
              ~IsTaskLine(lines[m]) /\ ~IsSectionLine(lines[m])}

\* C21: the parser folds an indented key: value line into the metadata of a
\* task only when no task line and no section heading lies between the
\* checkbox line of the task and the field line: a field line that follows a
\* heading is attached to no task, and a field line before the first task line
\* is ignored.
C21_FieldsFoldUntilTaskOrHeading ==
    pc = "diff" =>
        /\ Len(local_tasks) = Cardinality(TaskLines(file))
        /\ \A i \in DOMAIN local_tasks :
              \A key \in DOMAIN local_tasks[i].metadata :
                  \E j \in FieldLinesOf(file, TaskLineAt(file, i)) :
                      /\ file[j].key = key
                      /\ file[j].val = local_tasks[i].metadata[key]

\* the local tasks the change at position c can stem from
TasksOfChange(c) ==
    {i \in DOMAIN local_tasks :
        /\ TaskId(local_tasks[i]) = changes[c].task_id
        /\ changes[c].action = "create" => changes[c].task = local_tasks[i]}

\* the fields of a resolved task that differ from its snapshot entry
DifferingFields(task, entry) ==
    {f \in {"title", "labels", "milestone", "state"} :
        \/ f = "title" /\ task.title # entry.title
        \/ f = "labels" /\ LocalLabelSet(task) # entry.labels
        \/ f = "milestone"
              /\ Get(task.metadata, "milestone", "") # RemoteMilestoneTitle(entry)
        \/ f = "state" /\ (task.checked <=> entry.state = "open")}

\* C22: the change list of compute_diff holds at most one change per local
\* task, its changes appear in the document order of their tasks, and a task
\* with several differing fields yields a single update change that holds all
\* of them.
C22_OneChangePerTaskInOrder ==
    pc \notin {"pull", "parse", "diff"} =>
        /\ \A c \in DOMAIN changes : Cardinality(TasksOfChange(c)) = 1
        /\ \A c, d \in DOMAIN changes :
              c < d => \A i \in TasksOfChange(c), j \in TasksOfChange(d) : i < j
        /\ \A i \in DOMAIN local_tasks :
              LET t == local_tasks[i]
              IN Resolved(t, github_data)
                 /\ DifferingFields(t, github_data[TaskId(t)]) # {}
                    => /\ Cardinality(ChangesOf(TaskId(t))) = 1
                       /\ \A c \in ChangesOf(TaskId(t)) :
                             /\ changes[c].action = "update"
                             /\ DifferingFields(t, github_data[TaskId(t)])
                                   \subseteq DOMAIN changes[c].updates

\* C22 witness: compute_diff has returned two changes, the first an update
\* with a state entry and a milestone entry
C22_Witness ==
    /\ pc = "push"
    /\ Len(changes) = 2
    /\ changes[1].action = "update"
    /\ {"state", "milestone"} \subseteq DOMAIN changes[1].updates
    /\ {"state", "milestone"}
          \subseteq DifferingFields(local_tasks[1], github_data[TaskId(local_tasks[1])])

\* C23: repeated runs reach a fixpoint: from any file and remote store with
\* unique ids and known milestone titles, with no external edit and no
\* failure, some run is followed only by runs that issue no remote mutation
\* and write no change to the file; in particular a run that directly follows
\* a successful run computes an empty change list and an empty pull-action
\* list.
C23_RunAfterSuccessIsQuiet ==
    runs >= 2 =>
        /\ pc \notin {"pull", "parse", "diff"} => changes = <<>>
        /\ ui_changes = <<>>
        /\ calls = <<>>
        /\ tmp_file = None

====
